---- MODULE Spec2Model ----
(***************************************************************************)
(* Model of Fetch_Data_Analyst_Take_Home.py: a linear script that cleans   *)
(* three pandas DataFrames (user, transaction, products), left-joins them  *)
(* and runs fixed SQL queries on the joined table.                         *)
(*                                                                         *)
(* A DataFrame is a sequence of records; the field idx is the row's index  *)
(* label, which every filter keeps and which is not a column.  Each        *)
(* statement of the script is one step; pc is the statement to run next.   *)
(* Only the columns the script names are modelled.                         *)
(***************************************************************************)
EXTENDS Integers, Sequences, FiniteSets, Bags, TLC

VARIABLES pc, today, user, transaction, products, duplicate_products_df,
          merged_data, merged_table, top_5_brands, leading_brand

vars == <<pc, today, user, transaction, products, duplicate_products_df,
          merged_data, merged_table, top_5_brands, leading_brand>>

(***************************************************************************)
(* Missing values.  pandas uses NaN in float and in object columns and NaT *)
(* in datetime columns; the model keeps one marker per column type.        *)
(***************************************************************************)
NaN == -1
NA == "<NA>"
NaT == <<>>

(***************************************************************************)
(* Bounds of the model.                                                    *)
(***************************************************************************)
MaxUsers == 3
MaxProducts == 3
MaxPipelineRows == 2
MaxQ1Rows == 7
MaxQ3Rows == 4
MaxTransactions == 3

(***************************************************************************)
(* The statements of the script, by section, as values of pc.  A run that  *)
(* raises an exception ends with pc = "aborted".                           *)
(***************************************************************************)
TransactionSteps ==
    {"transaction_drop_duplicates", "transaction_quantity_zero",
     "transaction_quantity_float", "transaction_quantity_276",
     "transaction_sale_numeric", "transaction_barcode_str",
     "transaction_remove_duplicate_missing_sales"}

ProductSteps ==
    {"products_drop_duplicates", "products_needs_review",
     "products_barcode_str", "products_get_duplicates", "products_dropna",
     "products_keep_most_complete"}

MergeSteps ==
    {"merge_user", "merge_user_drop", "merge_products", "merge_products_drop"}

QuerySteps ==
    {"q1_to_sql", "q1_query", "q2_to_sql", "q2_query", "q3_to_sql",
     "q3_query", "done"}

(***************************************************************************)
(* DataFrame helpers.                                                      *)
(***************************************************************************)
\* df[mask]: the rows whose position the boolean mask selects, in order.
Mask(df, keep) ==
    LET F[i \in 0..Len(df)] ==
            IF i = 0 THEN <<>>
            ELSE IF keep[i] THEN Append(F[i - 1], df[i]) ELSE F[i - 1]
    IN F[Len(df)]

\* The columns of a row, without its index label.
Cols(r) == [r EXCEPT !.idx = 0]

\* df.drop_duplicates(): the first occurrence of every row is kept.
DropDuplicates(df) ==
    Mask(df, [i \in DOMAIN df |->
                \A j \in 1..(i - 1) : Cols(df[j]) # Cols(df[i])])

\* df.sort_index(): rows in increasing index label (labels are unique).
SortIndex(df) ==
    LET Rows == {df[i] : i \in DOMAIN df}
        F[S \in SUBSET Rows] ==
            IF S = {} THEN <<>>
            ELSE LET m == CHOOSE r \in S : \A q \in S : r.idx <= q.idx
                 IN <<m>> \o F[S \ {m}]
    IN F[Rows]

\* The frame read from a CSV file: index labels 0, 1, 2, ...
WithIndex(rows) == [i \in DOMAIN rows |-> [rows[i] EXCEPT !.idx = i - 1]]

\* All sequences of at most n elements of S.
SeqsUpTo(S, n) == UNION {[1..k -> S] : k \in 0..n}

(***************************************************************************)
(* Users (lines 96-143).  A date string 'YYYY-MM-DD ...' is the tuple of   *)
(* its zero-padded fields <<Y, M, D>>, so comparing two such strings       *)
(* compares the tuples field by field; a parsed date is the same tuple.    *)
(* Times of day are left out.  A missing date is NaT.                      *)
(***************************************************************************)
\* a < b, field by field.
Before(a, b) ==
    \/ a[1] < b[1]
    \/ a[1] = b[1] /\ a[2] < b[2]
    \/ a[1] = b[1] /\ a[2] = b[2] /\ a[3] < b[3]

IsLeap(y) == (y % 4 = 0 /\ y % 100 # 0) \/ y % 400 = 0

\* calendar.monthrange(y, m)[1]
DaysInMonth(y, m) ==
    IF m = 2 THEN (IF IsLeap(y) THEN 29 ELSE 28)
    ELSE IF m \in {4, 6, 9, 11} THEN 30 ELSE 31

\* Whether the fields are those of a calendar date.
ValidDate(s) ==
    /\ s[1] >= 1
    /\ s[2] \in 1..12
    /\ s[3] >= 1 /\ s[3] <= DaysInMonth(s[1], s[2])

\* user['BIRTH_DATE'] >= '1925-01-01' on the raw strings: a missing value
\* compares False.
BirthOnOrAfter1925(r) ==
    r.BIRTH_DATE # NaT /\ ~Before(r.BIRTH_DATE, <<1925, 1, 1>>)

\* pd.to_datetime(errors='coerce') on one value.
ToDatetimeCoerce(s) == IF s = NaT \/ ~ValidDate(s) THEN NaT ELSE s

GenderMissingTexts ==
    {"prefer_not_to_say", "Prefer not to say", "unknown", "not_listed",
     "not_specified", "My gender isn't listed"}

GenderNonBinaryTexts == {"non_binary", "Non-Binary"}

Sign(n) == IF n < 0 THEN -1 ELSE 1

Abs(n) == IF n < 0 THEN -n ELSE n

\* relativedelta._set_months: the years part of a count of months.
YearsOf(months) == Sign(months) * (Abs(months) \div 12)

\* relativedelta._set_months: the months part of a count of months.
MonthsOf(months) == Sign(months) * (Abs(months) % 12)

\* relativedelta.__radd__: the date, months later, the day clipped to the
\* length of the month.
AddMonths(dt, months) ==
    LET y0 == dt[1] + YearsOf(months)
        m0 == dt[2] + MonthsOf(months)
        y == IF m0 > 12 THEN y0 + 1 ELSE IF m0 < 1 THEN y0 - 1 ELSE y0
        m == IF m0 > 12 THEN m0 - 12 ELSE IF m0 < 1 THEN m0 + 12 ELSE m0
        d == IF dt[3] < DaysInMonth(y, m) THEN dt[3] ELSE DaysInMonth(y, m)
    IN <<y, m, d>>

\* relativedelta(dt1, dt2): the whole months from dt2 to dt1.
RECURSIVE AdjustMonths(_, _, _)
AdjustMonths(dt1, dt2, months) ==
    IF Before(dt1, dt2)
    THEN IF Before(AddMonths(dt2, months), dt1)
         THEN AdjustMonths(dt1, dt2, months + 1) ELSE months
    ELSE IF Before(dt1, AddMonths(dt2, months))
         THEN AdjustMonths(dt1, dt2, months - 1) ELSE months

RelativeMonths(dt1, dt2) ==
    AdjustMonths(dt1, dt2, (dt1[1] - dt2[1]) * 12 + (dt1[2] - dt2[2]))

\* calculate_age_precise(birthdate)
calculate_age_precise(birthdate) == YearsOf(RelativeMonths(today, birthdate))

\* calculate_account_age_months(creation_date)
calculate_account_age_months(creation_date) ==
    LET rd == RelativeMonths(today, creation_date)
    IN YearsOf(rd) * 12 + MonthsOf(rd)

\* The age filter with the threshold off by one.
AgeAtLeast12(r) == r.AGE # NaN /\ r.AGE >= 12

\* user['AGE'] >= 13
AgeAtLeast13(r) == r.AGE # NaN /\ r.AGE >= 13

UserDropDuplicates ==
    /\ pc = "user_drop_duplicates"
    /\ user' = DropDuplicates(user)
    /\ pc' = "user_birth_filter"
    /\ UNCHANGED <<today, transaction, products, duplicate_products_df,
                   merged_data, merged_table, top_5_brands, leading_brand>>

UserBirthFilter ==
    /\ pc = "user_birth_filter"
    /\ user' = Mask(user, [i \in DOMAIN user |-> BirthOnOrAfter1925(user[i])])
    /\ pc' = "user_gender_missing"
    /\ UNCHANGED <<today, transaction, products, duplicate_products_df,
                   merged_data, merged_table, top_5_brands, leading_brand>>

UserGenderMissing ==
    /\ pc = "user_gender_missing"
    /\ user' = [i \in DOMAIN user |->
                  IF user[i].GENDER \in GenderMissingTexts
                  THEN [user[i] EXCEPT !.GENDER = NA] ELSE user[i]]
    /\ pc' = "user_gender_non_binary"
    /\ UNCHANGED <<today, transaction, products, duplicate_products_df,
                   merged_data, merged_table, top_5_brands, leading_brand>>

UserGenderNonBinary ==
    /\ pc = "user_gender_non_binary"
    /\ user' = [i \in DOMAIN user |->
                  IF user[i].GENDER \in GenderNonBinaryTexts
                  THEN [user[i] EXCEPT !.GENDER = "non_binary"] ELSE user[i]]
    /\ pc' = "user_birth_to_datetime"
    /\ UNCHANGED <<today, transaction, products, duplicate_products_df,
                   merged_data, merged_table, top_5_brands, leading_brand>>

UserBirthToDatetime ==
    /\ pc = "user_birth_to_datetime"
    /\ user' = [i \in DOMAIN user |->
                  [user[i] EXCEPT
                      !.BIRTH_DATE = ToDatetimeCoerce(user[i].BIRTH_DATE)]]
    /\ pc' = "user_age"
    /\ UNCHANGED <<today, transaction, products, duplicate_products_df,
                   merged_data, merged_table, top_5_brands, leading_brand>>

\* apply(calculate_age_precise): relativedelta raises on NaT (its fields
\* are NaN), which ends the run.
UserAge ==
    /\ pc = "user_age"
    /\ IF \E i \in DOMAIN user : user[i].BIRTH_DATE = NaT
       THEN /\ pc' = "aborted"
            /\ UNCHANGED user
       ELSE /\ user' = [i \in DOMAIN user |->
                          user[i] @@
                          ("AGE" :> calculate_age_precise(user[i].BIRTH_DATE))]
            /\ pc' = "user_age_filter"
    /\ UNCHANGED <<today, transaction, products, duplicate_products_df,
                   merged_data, merged_table, top_5_brands, leading_brand>>

UserAgeFilter ==
    /\ pc = "user_age_filter"
    /\ user' = Mask(user, [i \in DOMAIN user |-> AgeAtLeast13(user[i])])
    /\ pc' = "user_created_to_datetime"
    /\ UNCHANGED <<today, transaction, products, duplicate_products_df,
                   merged_data, merged_table, top_5_brands, leading_brand>>

UserCreatedToDatetime ==
    /\ pc = "user_created_to_datetime"
    /\ user' = [i \in DOMAIN user |->
                  [user[i] EXCEPT
                      !.CREATED_DATE = ToDatetimeCoerce(user[i].CREATED_DATE)]]
    /\ pc' = "user_account_age"
    /\ UNCHANGED <<today, transaction, products, duplicate_products_df,
                   merged_data, merged_table, top_5_brands, leading_brand>>

UserAccountAge ==
    /\ pc = "user_account_age"
    /\ IF \E i \in DOMAIN user : user[i].CREATED_DATE = NaT
       THEN /\ pc' = "aborted"
            /\ UNCHANGED user
       ELSE /\ user' = [i \in DOMAIN user |->
                          user[i] @@
                          ("ACCOUNT_AGE_MONTHS" :>
                              calculate_account_age_months(user[i].CREATED_DATE))]
            /\ pc' = "transaction_drop_duplicates"
    /\ UNCHANGED <<today, transaction, products, duplicate_products_df,
                   merged_data, merged_table, top_5_brands, leading_brand>>

CleanUsers ==
    \/ UserDropDuplicates
    \/ UserBirthFilter
    \/ UserGenderMissing
    \/ UserGenderNonBinary
    \/ UserBirthToDatetime
    \/ UserAge
    \/ UserAgeFilter
    \/ UserCreatedToDatetime
    \/ UserAccountAge

(***************************************************************************)
(* The users file: rows drawn from a small set of raw rows.  The run is    *)
(* on 2025-03-06 (the date of the script).                                 *)
(***************************************************************************)
UserRow(id, birth, created, gender) ==
    [idx |-> 0, ID |-> id, CREATED_DATE |-> created, BIRTH_DATE |-> birth,
     GENDER |-> gender]

RawUserRows ==
    {UserRow("U1", b, <<2024, 9, 6>>, "female") :
        b \in {<<1924, 12, 31>>, <<1925, 1, 1>>, <<2004, 3, 6>>,
               <<2012, 3, 6>>, <<2012, 3, 7>>, <<2000, 13, 45>>, NaT}}
    \cup {UserRow("U2", b, <<2024, 9, 7>>, "female") :
            b \in {<<2004, 3, 7>>, NaT}}
    \cup {UserRow("U1", <<2004, 3, 6>>, c, "female") :
            c \in {<<2024, 2, 30>>, NaT}}
    \cup {UserRow("U1", <<2004, 3, 6>>, <<2024, 9, 6>>, g) :
            g \in {"Non-Binary", "unknown", NA}}

InitUsers ==
    /\ pc = "user_drop_duplicates"
    /\ today = <<2025, 3, 6>>
    /\ user \in {WithIndex(s) : s \in SeqsUpTo(RawUserRows, MaxUsers)}
    /\ transaction = <<>>
    /\ products = <<>>
    /\ duplicate_products_df = <<>>
    /\ merged_data = <<>>
    /\ merged_table = EmptyBag
    /\ top_5_brands = <<>>
    /\ leading_brand = <<>>

SpecUsers == InitUsers /\ [][CleanUsers]_vars

(***************************************************************************)
(* Claims about clean_users.                                               *)
(***************************************************************************)
\* The statements after the last statement of the users cleaning.
UsersCleaned ==
    pc \in TransactionSteps \cup ProductSteps \cup MergeSteps \cup QuerySteps

\* C5: after clean_users every row of the cleaned users table has a birth
\* date on or after 1925-01-01 and an age of at least 13 whole years: its
\* thirteenth birthday is not after the processing date.
C5_BirthAndAge ==
    UsersCleaned =>
        \A i \in DOMAIN user :
            /\ user[i].BIRTH_DATE # NaT
            /\ ~Before(user[i].BIRTH_DATE, <<1925, 1, 1>>)
            /\ user[i].AGE >= 13
            /\ ~Before(today, <<user[i].BIRTH_DATE[1] + 13,
                                user[i].BIRTH_DATE[2], user[i].BIRTH_DATE[3]>>)

\* C5 witness: the cleaning finished, kept a user aged exactly 13 and a
\* user born on 1925-01-01, so both filters ran on their boundary.
C5_Witness ==
    /\ UsersCleaned
    /\ \E i \in DOMAIN user : user[i].AGE = 13
    /\ \E i \in DOMAIN user : user[i].BIRTH_DATE = <<1925, 1, 1>>

\* Whether the row's birth date is missing or is not a date.
BirthUnusable(r) == r.BIRTH_DATE = NaT \/ ~ValidDate(r.BIRTH_DATE)

\* C6 (as claimed): a field value that cannot be parsed does not abort the
\* run and does not cost the row its place: after the exact-duplicate
\* removal no cleaning step ends the run, and no step of the users cleaning
\* drops a user whose birth date is missing or is not a date (a missing age
\* is not an age below 13).
C6_UnparseableRetained ==
    [][/\ pc' # "aborted"
       /\ pc \in {"user_birth_filter", "user_gender_missing",
                  "user_gender_non_binary", "user_birth_to_datetime",
                  "user_age", "user_age_filter", "user_created_to_datetime",
                  "user_account_age"} =>
             \A i \in DOMAIN user :
                 BirthUnusable(user[i]) =>
                     \E j \in DOMAIN user' : user'[j].idx = user[i].idx]_vars

\* astype(str) on a float BARCODE column (lines 162, 202): a number becomes
\* its decimal text and NaN becomes the string 'nan' (which line 222 lists
\* among the values of a missing BARCODE).
FloatToStr(x) ==
    CASE x = NaN -> "nan"
      [] x = 111 -> "111.0"
      [] x = 222 -> "222.0"
      [] x = 333 -> "333.0"

(***************************************************************************)
(* Transactions (lines 146-183).  Floats are kept in hundredths: 2.76 is   *)
(* 276 and 276.0 is 27600.                                                 *)
(***************************************************************************)
\* The strings float() accepts, with their values.
FloatStrings == {"0", "0.00", "1.00", "1.5", "1.50", "2.76", "276.00"}

StrToFloat(x) ==
    CASE x = "0" -> 0
      [] x = "0.00" -> 0
      [] x = "1.00" -> 100
      [] x = "1.5" -> 150
      [] x = "1.50" -> 150
      [] x = "2.76" -> 276
      [] x = "276.00" -> 27600

\* replace({'zero': '0'}) on the object column.
ReplaceZero(x) == IF x = "zero" THEN "0" ELSE x

\* astype(float) on one value of the object column: a missing value stays
\* missing; a string that is no number raises ValueError.
AstypeFloatRaises(x) == x # NA /\ x \notin FloatStrings

AstypeFloat(x) == IF x = NA THEN NaN ELSE StrToFloat(x)

\* replace({276: 2.76}) on the float column.
Replace276(x) == IF x = 27600 THEN 276 ELSE x

\* pd.to_numeric(errors='coerce') on one value: what is no number (the
\* blank string too) becomes NaN.
ToNumericCoerce(x) == IF x \in FloatStrings THEN StrToFloat(x) ELSE NaN

\* The columns of a row other than FINAL_SALE (and without the index label).
DropFinalSale(r) == [Cols(r) EXCEPT !.FINAL_SALE = NaN]

\* remove_duplicate_missing_sales(df)
remove_duplicate_missing_sales(df) ==
    LET duplicates ==
            [i \in DOMAIN df |->
                \E j \in DOMAIN df :
                    j # i /\ DropFinalSale(df[j]) = DropFinalSale(df[i])]
        valid_sales_duplicates ==
            Mask(df, [i \in DOMAIN df |->
                        duplicates[i] /\ df[i].FINAL_SALE # NaN])
        non_duplicates == Mask(df, [i \in DOMAIN df |-> ~duplicates[i]])
    IN SortIndex(non_duplicates \o valid_sales_duplicates)

TransactionDropDuplicates ==
    /\ pc = "transaction_drop_duplicates"
    /\ transaction' = DropDuplicates(transaction)
    /\ pc' = "transaction_quantity_zero"
    /\ UNCHANGED <<today, user, products, duplicate_products_df,
                   merged_data, merged_table, top_5_brands, leading_brand>>

TransactionQuantityZero ==
    /\ pc = "transaction_quantity_zero"
    /\ transaction' =
          [i \in DOMAIN transaction |->
              [transaction[i] EXCEPT
                  !.FINAL_QUANTITY = ReplaceZero(transaction[i].FINAL_QUANTITY)]]
    /\ pc' = "transaction_quantity_float"
    /\ UNCHANGED <<today, user, products, duplicate_products_df,
                   merged_data, merged_table, top_5_brands, leading_brand>>

TransactionQuantityFloat ==
    /\ pc = "transaction_quantity_float"
    /\ IF \E i \in DOMAIN transaction :
              AstypeFloatRaises(transaction[i].FINAL_QUANTITY)
       THEN /\ pc' = "aborted"
            /\ UNCHANGED transaction
       ELSE /\ transaction' =
                  [i \in DOMAIN transaction |->
                      [transaction[i] EXCEPT
                          !.FINAL_QUANTITY =
                              AstypeFloat(transaction[i].FINAL_QUANTITY)]]
            /\ pc' = "transaction_quantity_276"
    /\ UNCHANGED <<today, user, products, duplicate_products_df,
                   merged_data, merged_table, top_5_brands, leading_brand>>

TransactionQuantity276 ==
    /\ pc = "transaction_quantity_276"
    /\ transaction' =
          [i \in DOMAIN transaction |->
              [transaction[i] EXCEPT
                  !.FINAL_QUANTITY = Replace276(transaction[i].FINAL_QUANTITY)]]
    /\ pc' = "transaction_sale_numeric"
    /\ UNCHANGED <<today, user, products, duplicate_products_df,
                   merged_data, merged_table, top_5_brands, leading_brand>>

TransactionSaleNumeric ==
    /\ pc = "transaction_sale_numeric"
    /\ transaction' =
          [i \in DOMAIN transaction |->
              [transaction[i] EXCEPT
                  !.FINAL_SALE = ToNumericCoerce(transaction[i].FINAL_SALE)]]
    /\ pc' = "transaction_barcode_str"
    /\ UNCHANGED <<today, user, products, duplicate_products_df,
                   merged_data, merged_table, top_5_brands, leading_brand>>

TransactionBarcodeToStr ==
    /\ pc = "transaction_barcode_str"
    /\ transaction' =
          [i \in DOMAIN transaction |->
              [transaction[i] EXCEPT
                  !.BARCODE = FloatToStr(transaction[i].BARCODE)]]
    /\ pc' = "transaction_remove_duplicate_missing_sales"
    /\ UNCHANGED <<today, user, products, duplicate_products_df,
                   merged_data, merged_table, top_5_brands, leading_brand>>

TransactionRemoveDuplicateMissingSales ==
    /\ pc = "transaction_remove_duplicate_missing_sales"
    /\ transaction' = remove_duplicate_missing_sales(transaction)
    /\ pc' = "products_drop_duplicates"
    /\ UNCHANGED <<today, user, products, duplicate_products_df,
                   merged_data, merged_table, top_5_brands, leading_brand>>

CleanTransactions ==
    \/ TransactionDropDuplicates
    \/ TransactionQuantityZero
    \/ TransactionQuantityFloat
    \/ TransactionQuantity276
    \/ TransactionSaleNumeric
    \/ TransactionBarcodeToStr
    \/ TransactionRemoveDuplicateMissingSales

(***************************************************************************)
(* The transactions file: rows drawn from a small set of raw rows.         *)
(***************************************************************************)
TransactionRow(rc, u, b, q, sl) ==
    [idx |-> 0, RECEIPT_ID |-> rc, STORE_NAME |-> "WALMART", USER_ID |-> u,
     BARCODE |-> b, FINAL_QUANTITY |-> q, FINAL_SALE |-> sl]

RawTransactionRows ==
    {TransactionRow("R1", "U1", 111, q, sl) :
        q \in {"zero", "0.00", "276.00", "2.76", "two"},
        sl \in {" ", "1.50", "1.5"}}
    \cup {TransactionRow("R2", "U1", 111, "zero", sl) : sl \in {" ", "1.50", NA}}
    \cup {TransactionRow("R1", "U1", NaN, "zero", sl) : sl \in {" ", "1.50"}}
    \cup {TransactionRow("R1", "U1", 111, NA, "1.50")}

InitTransactions ==
    /\ pc = "transaction_drop_duplicates"
    /\ today = <<2025, 3, 6>>
    /\ user = <<>>
    /\ transaction \in
          {WithIndex(s) : s \in SeqsUpTo(RawTransactionRows, MaxTransactions)}
    /\ products = <<>>
    /\ duplicate_products_df = <<>>
    /\ merged_data = <<>>
    /\ merged_table = EmptyBag
    /\ top_5_brands = <<>>
    /\ leading_brand = <<>>

SpecTransactions == InitTransactions /\ [][CleanTransactions]_vars

(***************************************************************************)
(* Claims about clean_transactions.                                        *)
(***************************************************************************)
\* The statements after the last statement of the transactions cleaning.
TransactionsCleaned == pc \in ProductSteps \cup MergeSteps \cup QuerySteps

\* C4 (as claimed): after clean_transactions no two cleaned rows are
\* identical in every column (values compared after the coercions), and no
\* cleaned row with a missing sale amount is identical in all other columns
\* to another cleaned row.
C4_NoDuplicateTransactions ==
    TransactionsCleaned =>
        \A i, j \in DOMAIN transaction :
            i # j =>
                /\ Cols(transaction[i]) # Cols(transaction[j])
                /\ transaction[i].FINAL_SALE = NaN =>
                      DropFinalSale(transaction[i]) # DropFinalSale(transaction[j])

\* C10 (as claimed): remove_duplicate_missing_sales never removes a
\* transaction entirely: every row that enters it agrees with some row of
\* the cleaned table on every column other than the sale amount.
C10_NoTransactionLost ==
    [][pc = "transaction_remove_duplicate_missing_sales" =>
        \A i \in DOMAIN transaction :
            \E j \in DOMAIN transaction' :
                DropFinalSale(transaction'[j]) = DropFinalSale(transaction[i])]_vars

(***************************************************************************)
(* Products (lines 186-256).                                               *)
(***************************************************************************)
ProductColumns ==
    {"CATEGORY_1", "CATEGORY_2", "CATEGORY_3", "CATEGORY_4",
     "MANUFACTURER", "BRAND", "BARCODE_products"}

\* products['BARCODE'].astype(str), then rename to BARCODE_products.
ProductBarcodeToStr(r) ==
    [idx |-> r.idx,
     CATEGORY_1 |-> r.CATEGORY_1, CATEGORY_2 |-> r.CATEGORY_2,
     CATEGORY_3 |-> r.CATEGORY_3, CATEGORY_4 |-> r.CATEGORY_4,
     MANUFACTURER |-> r.MANUFACTURER, BRAND |-> r.BRAND,
     BARCODE_products |-> FloatToStr(r.BARCODE)]

\* duplicated(subset='BARCODE_products', keep=False)
DuplicatedBarcode(df) ==
    [i \in DOMAIN df |->
        \E j \in DOMAIN df :
            j # i /\ df[j].BARCODE_products = df[i].BARCODE_products]

get_duplicate_barcode_products(products_df) ==
    Mask(products_df, DuplicatedBarcode(products_df))

\* dropna(subset=["BARCODE_products"]): the column holds strings by now;
\* a row is dropped only when its value is the missing marker.
DropnaBarcode(df) ==
    Mask(df, [i \in DOMAIN df |-> df[i].BARCODE_products # NA])

\* duplicate_rows.notna().sum(axis=1)
NonMissingCount(r) == Cardinality({c \in ProductColumns : r[c] # NA})

\* sort_values('non_missing_count', ascending=False): the default kind is
\* quicksort, which is not stable, so rows with equal counts may come out
\* in any order.  The set of the orders the sort may produce.
SortValuesDesc(df) ==
    {s \in {[i \in DOMAIN df |-> df[p[i]]] : p \in Permutations(DOMAIN df)} :
        \A i, j \in DOMAIN s :
            i < j => NonMissingCount(s[i]) >= NonMissingCount(s[j])}

\* drop_duplicates(subset='BARCODE_products', keep='first')
DropDuplicateBarcodes(df) ==
    Mask(df, [i \in DOMAIN df |->
                \A j \in 1..(i - 1) :
                    df[j].BARCODE_products # df[i].BARCODE_products])

\* A variant that returns the frame without resolving the duplicates.
KeepAllDuplicates(df) == {df}

\* keep_most_complete_duplicates(df, 'BARCODE_products'): the set of the
\* frames it may return (one per order the unstable sort may produce).
keep_most_complete_duplicates(df) ==
    LET duplicates == DuplicatedBarcode(df)
        duplicate_rows == Mask(df, duplicates)
        non_duplicate_rows ==
            Mask(df, [i \in DOMAIN df |-> ~duplicates[i]])
    IN IF duplicate_rows = <<>> THEN {df}
       ELSE {SortIndex(non_duplicate_rows \o DropDuplicateBarcodes(s)) :
                s \in SortValuesDesc(duplicate_rows)}

ProductsDropDuplicates ==
    /\ pc = "products_drop_duplicates"
    /\ products' = DropDuplicates(products)
    /\ pc' = "products_needs_review"
    /\ UNCHANGED <<today, user, transaction, duplicate_products_df,
                   merged_data, merged_table, top_5_brands, leading_brand>>

ProductsDropNeedsReview ==
    /\ pc = "products_needs_review"
    /\ products' = Mask(products, [i \in DOMAIN products |->
                                    products[i].CATEGORY_1 # "Needs Review"])
    /\ pc' = "products_barcode_str"
    /\ UNCHANGED <<today, user, transaction, duplicate_products_df,
                   merged_data, merged_table, top_5_brands, leading_brand>>

ProductsBarcodeToStr ==
    /\ pc = "products_barcode_str"
    /\ products' = [i \in DOMAIN products |-> ProductBarcodeToStr(products[i])]
    /\ pc' = "products_get_duplicates"
    /\ UNCHANGED <<today, user, transaction, duplicate_products_df,
                   merged_data, merged_table, top_5_brands, leading_brand>>

ProductsGetDuplicates ==
    /\ pc = "products_get_duplicates"
    /\ duplicate_products_df' = get_duplicate_barcode_products(products)
    /\ pc' = "products_dropna"
    /\ UNCHANGED <<today, user, transaction, products,
                   merged_data, merged_table, top_5_brands, leading_brand>>

ProductsDropna ==
    /\ pc = "products_dropna"
    /\ products' = DropnaBarcode(products)
    /\ pc' = "products_keep_most_complete"
    /\ UNCHANGED <<today, user, transaction, duplicate_products_df,
                   merged_data, merged_table, top_5_brands, leading_brand>>

ProductsKeepMostComplete ==
    /\ pc = "products_keep_most_complete"
    /\ products' \in keep_most_complete_duplicates(products)
    /\ pc' = "merge_user"
    /\ UNCHANGED <<today, user, transaction, duplicate_products_df,
                   merged_data, merged_table, top_5_brands, leading_brand>>

CleanProducts ==
    \/ ProductsDropDuplicates
    \/ ProductsDropNeedsReview
    \/ ProductsBarcodeToStr
    \/ ProductsGetDuplicates
    \/ ProductsDropna
    \/ ProductsKeepMostComplete

(***************************************************************************)
(* The products file: rows drawn from a small set of raw rows.             *)
(***************************************************************************)
ProductRow(b, c1, c2, m, br) ==
    [idx |-> 0, CATEGORY_1 |-> c1, CATEGORY_2 |-> c2, CATEGORY_3 |-> NA,
     CATEGORY_4 |-> NA, MANUFACTURER |-> m, BRAND |-> br, BARCODE |-> b]

RawProductRows ==
    {ProductRow(b, "Snacks", NA, mb[1], mb[2]) :
        b \in {NaN, 111, 222},
        mb \in {<<"M1", "B1">>, <<"M1", NA>>, <<NA, "B1">>}}
    \cup {ProductRow(b, "Needs Review", NA, NA, NA) : b \in {NaN, 111}}
    \cup {ProductRow(111, NA, NA, "M1", "B1")}

InitProducts ==
    /\ pc = "products_drop_duplicates"
    /\ today = <<2025, 3, 6>>
    /\ user = <<>>
    /\ transaction = <<>>
    /\ products \in {WithIndex(s) : s \in SeqsUpTo(RawProductRows, MaxProducts)}
    /\ duplicate_products_df = <<>>
    /\ merged_data = <<>>
    /\ merged_table = EmptyBag
    /\ top_5_brands = <<>>
    /\ leading_brand = <<>>

SpecProducts == InitProducts /\ [][CleanProducts]_vars

(***************************************************************************)
(* Merge (lines 259-265).                                                  *)
(***************************************************************************)
\* df.drop(columns, axis=1) on one row.
RowWithout(r, columns) == [c \in DOMAIN r \ columns |-> r[c]]

\* The user columns of a left row that matches no user.
NoUser ==
    [ID |-> NA, CREATED_DATE |-> NaT, BIRTH_DATE |-> NaT, GENDER |-> NA,
     AGE |-> NaN, ACCOUNT_AGE_MONTHS |-> NaN]

\* The product columns of a left row that matches no product.
NoProduct ==
    [CATEGORY_1 |-> NA, CATEGORY_2 |-> NA, CATEGORY_3 |-> NA,
     CATEGORY_4 |-> NA, MANUFACTURER |-> NA, BRAND |-> NA,
     BARCODE_products |-> NA]

\* The rows a left row yields in an inner join: a left row without a
\* match yields nothing.
InnerMatches(l, right, left_on, right_on, missing) ==
    LET hits == Mask(right, [j \in DOMAIN right |->
                                right[j][right_on] = l[left_on]])
    IN [k \in DOMAIN hits |->
            RowWithout(l, {"idx"}) @@ RowWithout(hits[k], {"idx"})]

\* The rows a left row yields in a left join: one per right row whose key
\* equals its key (pandas matches a missing key with a missing key), in the
\* right frame's order; one row with the right columns missing otherwise.
LeftMatches(l, right, left_on, right_on, missing) ==
    LET hits == Mask(right, [j \in DOMAIN right |->
                                right[j][right_on] = l[left_on]])
    IN IF hits = <<>> THEN <<RowWithout(l, {"idx"}) @@ missing>>
       ELSE [k \in DOMAIN hits |->
                RowWithout(l, {"idx"}) @@ RowWithout(hits[k], {"idx"})]

\* pd.merge(left, right, left_on=..., right_on=..., how='left'): the left
\* rows in order, each with its matches; the result has a fresh index.
LeftMerge(left, right, left_on, right_on, missing) ==
    LET F[i \in 0..Len(left)] ==
            IF i = 0 THEN <<>>
            ELSE F[i - 1] \o
                 LeftMatches(left[i], right, left_on, right_on, missing)
        rows == F[Len(left)]
    IN [k \in DOMAIN rows |-> rows[k] @@ ("idx" :> k - 1)]

MergeUser ==
    /\ pc = "merge_user"
    /\ merged_data' = LeftMerge(transaction, user, "USER_ID", "ID", NoUser)
    /\ pc' = "merge_user_drop"
    /\ UNCHANGED <<today, user, transaction, products, duplicate_products_df,
                   merged_table, top_5_brands, leading_brand>>

MergeUserDrop ==
    /\ pc = "merge_user_drop"
    /\ merged_data' = [k \in DOMAIN merged_data |->
                          RowWithout(merged_data[k], {"ID"})]
    /\ pc' = "merge_products"
    /\ UNCHANGED <<today, user, transaction, products, duplicate_products_df,
                   merged_table, top_5_brands, leading_brand>>

MergeProducts ==
    /\ pc = "merge_products"
    /\ merged_data' = LeftMerge(merged_data, products, "BARCODE",
                                "BARCODE_products", NoProduct)
    /\ pc' = "merge_products_drop"
    /\ UNCHANGED <<today, user, transaction, products, duplicate_products_df,
                   merged_table, top_5_brands, leading_brand>>

MergeProductsDrop ==
    /\ pc = "merge_products_drop"
    /\ merged_data' = [k \in DOMAIN merged_data |->
                          RowWithout(merged_data[k], {"BARCODE_products"})]
    /\ pc' = "q1_to_sql"
    /\ UNCHANGED <<today, user, transaction, products, duplicate_products_df,
                   merged_table, top_5_brands, leading_brand>>

Merge ==
    \/ MergeUser
    \/ MergeUserDrop
    \/ MergeProducts
    \/ MergeProductsDrop

(***************************************************************************)
(* Queries (lines 303-444).  The SQLite table is a bag of rows: SQL gives  *)
(* a table no order, and a missing value is stored as NULL.                *)
(***************************************************************************)
\* merged_df.to_sql('merged_table', conn, index=False, if_exists='replace')
ToSql(df) ==
    LET F[i \in 0..Len(df)] ==
            IF i = 0 THEN EmptyBag
            ELSE F[i - 1] (+) SetToBag({RowWithout(df[i], {"idx"})})
    IN F[Len(df)]

\* The BRAND values of GROUP BY BRAND.
Brands(rows) == {r.BRAND : r \in rows}

\* COUNT(DISTINCT RECEIPT_ID) over the rows of one brand.
CountDistinctReceipts(rows, brand) ==
    Cardinality({r.RECEIPT_ID : r \in {q \in rows : q.BRAND = brand}}
                \ {NA})

\* SUM(FINAL_SALE) over the rows of one brand, each row counted as often as
\* the table holds it.
SumFinalSale(table, rows, brand) ==
    LET G == {q \in rows : q.BRAND = brand}
        F[S \in SUBSET G] ==
            IF S = {} THEN 0
            ELSE LET r == CHOOSE q \in S : TRUE
                 IN CopiesIn(r, table) * r.FINAL_SALE + F[S \ {r}]
    IN F[G]

\* ORDER BY <key> ASC LIMIT n: the order reversed.
RECURSIVE OrderByAscLimit(_, _, _)
OrderByAscLimit(S, key, n) ==
    IF n = 0 \/ S = {} THEN {<<>>}
    ELSE UNION {{<<g>> \o t : t \in OrderByAscLimit(S \ {g}, key, n - 1)} :
                  g \in {x \in S : \A y \in S : key[x] <= key[y]}}

\* ORDER BY <key> DESC LIMIT n over the group rows S: SQL leaves the order
\* of rows with equal keys open, so this is the set of the possible results.
RECURSIVE OrderByDescLimit(_, _, _)
OrderByDescLimit(S, key, n) ==
    IF n = 0 \/ S = {} THEN {<<>>}
    ELSE UNION {{<<g>> \o t : t \in OrderByDescLimit(S \ {g}, key, n - 1)} :
                  g \in {x \in S : \A y \in S : key[x] >= key[y]}}

\* WHERE AGE >= 21 AND BRAND IS NOT NULL
Q1Where(r) == r.AGE # NaN /\ r.AGE >= 21 /\ r.BRAND # NA

\* The query of get_top_5_brands_by_receipts_users_over_21.
Query1(table) ==
    LET rows == {r \in BagToSet(table) : Q1Where(r)}
        groups == {[BRAND |-> b,
                    receipt_count |-> CountDistinctReceipts(rows, b)] :
                        b \in Brands(rows)}
    IN OrderByDescLimit(groups, [g \in groups |-> g.receipt_count], 5)

\* WHERE ACCOUNT_AGE_MONTHS >= 6 AND BRAND IS NOT NULL AND FINAL_SALE IS NOT NULL
Q2Where(r) ==
    /\ r.ACCOUNT_AGE_MONTHS # NaN /\ r.ACCOUNT_AGE_MONTHS >= 6
    /\ r.BRAND # NA
    /\ r.FINAL_SALE # NaN

\* The query of get_top_5_brands_by_sales_account_over_6_months.
Query2(table) ==
    LET rows == {r \in BagToSet(table) : Q2Where(r)}
        groups == {[BRAND |-> b,
                    total_sales |-> SumFinalSale(table, rows, b)] :
                        b \in Brands(rows)}
    IN OrderByDescLimit(groups, [g \in groups |-> g.total_sales], 5)

\* The filter of query 3 with the CATEGORY_3 alternative left out.
Q3WhereCategory2Only(r) ==
    /\ r.CATEGORY_2 = "Dips & Salsa"
    /\ r.BRAND # NA
    /\ r.FINAL_SALE # NaN

\* WHERE (CATEGORY_2 = 'Dips & Salsa' OR CATEGORY_3 = 'Dips & Salsa')
\*   AND BRAND IS NOT NULL AND FINAL_SALE IS NOT NULL
Q3Where(r) ==
    /\ r.CATEGORY_2 = "Dips & Salsa" \/ r.CATEGORY_3 = "Dips & Salsa"
    /\ r.BRAND # NA
    /\ r.FINAL_SALE # NaN

\* The query of get_leading_dips_salsa_brand.
Query3(table) ==
    LET rows == {r \in BagToSet(table) : Q3Where(r)}
        groups == {[BRAND |-> b,
                    total_sales |-> SumFinalSale(table, rows, b)] :
                        b \in Brands(rows)}
    IN OrderByDescLimit(groups, [g \in groups |-> g.total_sales], 1)

Q1ToSql ==
    /\ pc = "q1_to_sql"
    /\ merged_table' = ToSql(merged_data)
    /\ pc' = "q1_query"
    /\ UNCHANGED <<today, user, transaction, products, duplicate_products_df,
                   merged_data, top_5_brands, leading_brand>>

Q1Query ==
    /\ pc = "q1_query"
    /\ top_5_brands' \in Query1(merged_table)
    /\ pc' = "q2_to_sql"
    /\ UNCHANGED <<today, user, transaction, products, duplicate_products_df,
                   merged_data, merged_table, leading_brand>>

Q2ToSql ==
    /\ pc = "q2_to_sql"
    /\ merged_table' = ToSql(merged_data)
    /\ pc' = "q2_query"
    /\ UNCHANGED <<today, user, transaction, products, duplicate_products_df,
                   merged_data, top_5_brands, leading_brand>>

Q2Query ==
    /\ pc = "q2_query"
    /\ top_5_brands' \in Query2(merged_table)
    /\ pc' = "q3_to_sql"
    /\ UNCHANGED <<today, user, transaction, products, duplicate_products_df,
                   merged_data, merged_table, leading_brand>>

Q3ToSql ==
    /\ pc = "q3_to_sql"
    /\ merged_table' = ToSql(merged_data)
    /\ pc' = "q3_query"
    /\ UNCHANGED <<today, user, transaction, products, duplicate_products_df,
                   merged_data, top_5_brands, leading_brand>>

Q3Query ==
    /\ pc = "q3_query"
    /\ leading_brand' \in Query3(merged_table)
    /\ pc' = "done"
    /\ UNCHANGED <<today, user, transaction, products, duplicate_products_df,
                   merged_data, merged_table, top_5_brands>>

Queries ==
    \/ Q1ToSql
    \/ Q1Query
    \/ Q2ToSql
    \/ Q2Query
    \/ Q3ToSql
    \/ Q3Query

(***************************************************************************)
(* Claims about clean_products.                                            *)
(***************************************************************************)
\* The statements after the last statement of the products cleaning.
ProductsCleaned == pc \in MergeSteps \cup QuerySteps

\* The values line 222 counts as a missing BARCODE.
MissingBarcodeValues == {NA, "N/A", "", "nan"}

\* C1: after clean_products no two rows of the cleaned products table have
\* the same barcode value.
C1_UniqueBarcodes ==
    ProductsCleaned =>
        \A i, j \in DOMAIN products :
            i # j => products[i].BARCODE_products # products[j].BARCODE_products

\* C1 witness: rows shared a real barcode before the deduplication and the
\* cleaned table still holds several rows.
C1_Witness ==
    /\ ProductsCleaned
    /\ \E i \in DOMAIN duplicate_products_df :
          duplicate_products_df[i].BARCODE_products = "111.0"
    /\ Len(products) >= 2

\* C2 (as claimed): after clean_products no row of the cleaned products
\* table has a missing barcode, i.e. every raw row whose barcode was null is
\* absent, also though the column was coerced to strings before the drop.
C2_NoMissingBarcode ==
    ProductsCleaned =>
        \A i \in DOMAIN products :
            products[i].BARCODE_products \notin MissingBarcodeValues

\* The rows of df that carry barcode b, in order.
BarcodeGroup(df, b) ==
    Mask(df, [i \in DOMAIN df |-> df[i].BARCODE_products = b])

\* The first row of a non-empty group that has the group's maximum count of
\* non-missing fields.
FirstMostComplete(g) ==
    LET i == CHOOSE k \in DOMAIN g :
                /\ \A l \in DOMAIN g :
                      NonMissingCount(g[k]) >= NonMissingCount(g[l])
                /\ \A l \in 1..(k - 1) :
                      NonMissingCount(g[l]) < NonMissingCount(g[k])
    IN g[i]

\* C3 (as claimed): for every group of product rows sharing a barcode,
\* keep_most_complete_duplicates retains exactly one row of the group, that
\* row has the maximum count of non-missing fields of the group, and among
\* the rows that tie for the maximum it is the first in the original order.
C3_FirstMostCompleteKept ==
    [][pc = "products_keep_most_complete" =>
        \A k \in DOMAIN products :
            BarcodeGroup(products', products[k].BARCODE_products)
              = <<FirstMostComplete(
                    BarcodeGroup(products, products[k].BARCODE_products))>>]_vars

(***************************************************************************)
(* The whole script, on small files.                                       *)
(***************************************************************************)
PipelineUserRows ==
    {UserRow("U1", <<2004, 3, 6>>, <<2024, 9, 6>>, "female"),
     UserRow("U1", <<2004, 3, 6>>, <<2024, 9, 6>>, "unknown"),
     UserRow("U2", <<2012, 3, 7>>, <<2024, 9, 7>>, "female")}

PipelineTransactionRows ==
    {TransactionRow("R1", "U1", 111, "1.00", "1.50"),
     TransactionRow("R2", "U1", NaN, "zero", "1.50"),
     TransactionRow("R2", "U3", 222, "1.00", " ")}

PipelineProductRows ==
    {ProductRow(111, "Snacks", "Dips & Salsa", "M1", "B1"),
     ProductRow(111, "Snacks", "Dips & Salsa", NA, "B2"),
     ProductRow(NaN, "Snacks", NA, "M1", "B2")}

Init ==
    /\ pc = "user_drop_duplicates"
    /\ today = <<2025, 3, 6>>
    /\ user \in {WithIndex(s) : s \in SeqsUpTo(PipelineUserRows, MaxPipelineRows)}
    /\ transaction \in
          {WithIndex(s) : s \in SeqsUpTo(PipelineTransactionRows, MaxPipelineRows)}
    /\ products \in
          {WithIndex(s) : s \in SeqsUpTo(PipelineProductRows, MaxPipelineRows)}
    /\ duplicate_products_df = <<>>
    /\ merged_data = <<>>
    /\ merged_table = EmptyBag
    /\ top_5_brands = <<>>
    /\ leading_brand = <<>>

Next ==
    \/ CleanUsers
    \/ CleanTransactions
    \/ CleanProducts
    \/ Merge
    \/ Queries

Spec == Init /\ [][Next]_vars

(***************************************************************************)
(* The queries on their own, on joined tables drawn from a small set of    *)
(* rows.  A query reads the joined table through SQL only, so one frame    *)
(* per bag of rows is enough.                                              *)
(***************************************************************************)
\* A row of the joined table.
MergedRow(receipt, brand, age, sale, c2, c3) ==
    [RECEIPT_ID |-> receipt, STORE_NAME |-> "WALMART", USER_ID |-> "U1",
     BARCODE |-> "111.0", FINAL_QUANTITY |-> 100, FINAL_SALE |-> sale,
     CREATED_DATE |-> <<2024, 9, 6>>, BIRTH_DATE |-> <<2004, 3, 6>>,
     GENDER |-> "female", AGE |-> age, ACCOUNT_AGE_MONTHS |-> 6,
     CATEGORY_1 |-> "Snacks", CATEGORY_2 |-> c2, CATEGORY_3 |-> c3,
     CATEGORY_4 |-> NA, MANUFACTURER |-> "M1", BRAND |-> brand]

\* A frame that holds the rows of a bag.
RECURSIVE RowsOf(_)
RowsOf(bag) ==
    IF bag = EmptyBag THEN <<>>
    ELSE LET r == CHOOSE q \in BagToSet(bag) : TRUE
         IN <<r>> \o RowsOf(bag (-) SetToBag({r}))

FrameOf(bag) ==
    LET rows == RowsOf(bag)
    IN [k \in DOMAIN rows |-> rows[k] @@ ("idx" :> k - 1)]

\* All bags of at most n rows of S.
RECURSIVE BagsUpTo(_, _)
BagsUpTo(S, n) ==
    IF n = 0 THEN {EmptyBag}
    ELSE LET B == BagsUpTo(S, n - 1)
         IN B \cup {b (+) SetToBag({r}) : b \in B, r \in S}

Q1Rows ==
    {MergedRow("R1", b, 21, 150, NA, NA) :
        b \in {"B1", "B2", "B3", "B4", "B5", "B6"}}
    \cup {MergedRow("R2", "B1", 21, 150, NA, NA),
          MergedRow("R2", "B3", 20, 150, NA, NA),
          MergedRow("R1", NA, 21, 150, NA, NA),
          MergedRow("R2", "B4", NaN, 150, NA, NA)}

InitQ1 ==
    /\ pc = "q1_to_sql"
    /\ today = <<2025, 3, 6>>
    /\ user = <<>>
    /\ transaction = <<>>
    /\ products = <<>>
    /\ duplicate_products_df = <<>>
    /\ merged_data \in {FrameOf(b) : b \in BagsUpTo(Q1Rows, MaxQ1Rows)}
    /\ merged_table = EmptyBag
    /\ top_5_brands = <<>>
    /\ leading_brand = <<>>

NextQ1 ==
    \/ Q1ToSql
    \/ Q1Query

SpecQ1 == InitQ1 /\ [][NextQ1]_vars

Q3Rows ==
    {MergedRow("R1", b, 21, sl, c[1], c[2]) :
        b \in {"B1", "B2"}, sl \in {100, 250},
        c \in {<<"Dips & Salsa", NA>>, <<"Snacks", "Dips & Salsa">>}}
    \cup {MergedRow("R1", "B1", 21, 250, "Dips", "Salsa"),
          MergedRow("R1", NA, 21, 250, "Dips & Salsa", NA),
          MergedRow("R1", "B2", 21, NaN, "Dips & Salsa", NA)}

InitQ3 ==
    /\ pc = "q3_to_sql"
    /\ today = <<2025, 3, 6>>
    /\ user = <<>>
    /\ transaction = <<>>
    /\ products = <<>>
    /\ duplicate_products_df = <<>>
    /\ merged_data \in {FrameOf(b) : b \in BagsUpTo(Q3Rows, MaxQ3Rows)}
    /\ merged_table = EmptyBag
    /\ top_5_brands = <<>>
    /\ leading_brand = <<>>

NextQ3 ==
    \/ Q3ToSql
    \/ Q3Query

SpecQ3 == InitQ3 /\ [][NextQ3]_vars

(***************************************************************************)
(* Claims about the join.                                                  *)
(***************************************************************************)
\* The statements after the second join.
Merged == pc \in {"merge_products_drop"} \cup QuerySteps

UniqueUserIds == \A i, j \in DOMAIN user : i # j => user[i].ID # user[j].ID

UniqueProductBarcodes ==
    \A i, j \in DOMAIN products :
        i # j => products[i].BARCODE_products # products[j].BARCODE_products

\* C7: when the user identifier is unique among the cleaned users and the
\* barcode is unique among the cleaned products, the joined table has
\* exactly as many rows as the cleaned transactions table, after the first
\* join and after the second.
C7_JoinCardinality ==
    /\ pc = "merge_user_drop" /\ UniqueUserIds
          => Len(merged_data) = Len(transaction)
    /\ Merged /\ UniqueUserIds /\ UniqueProductBarcodes
          => Len(merged_data) = Len(transaction)

\* C7 witness: both joins ran on two transactions, one that matched a user
\* and a product and one that matched no user.
C7_Witness ==
    /\ Merged
    /\ UniqueUserIds /\ UniqueProductBarcodes
    /\ Len(transaction) = 2
    /\ Len(user) >= 1 /\ Len(products) >= 1
    /\ \E k \in DOMAIN merged_data :
          merged_data[k].AGE # NaN /\ merged_data[k].BRAND # NA
    /\ \E k \in DOMAIN merged_data : merged_data[k].AGE = NaN

\* The product columns of a joined row.
ProductValues(r) ==
    {r.CATEGORY_1, r.CATEGORY_2, r.CATEGORY_3, r.CATEGORY_4, r.MANUFACTURER,
     r.BRAND}

\* C11: in the joined table every row of a transaction whose barcode is
\* missing (the text 'nan' after line 162) has missing values in all product
\* columns, whatever rows the raw products table holds.
C11_MissingBarcodeUnmatched ==
    Merged =>
        \A k \in DOMAIN merged_data :
            merged_data[k].BARCODE \in MissingBarcodeValues
                => ProductValues(merged_data[k]) = {NA}

(***************************************************************************)
(* Claims about the queries.                                               *)
(***************************************************************************)
\* The statements at which top_5_brands holds the result of query 1.
Q1Done == pc \in {"q2_to_sql", "q2_query"}

\* The distinct receipts of the joined rows of a brand with age >= 21.
ReceiptsOver21(brand) ==
    {r.RECEIPT_ID : r \in {q \in BagToSet(merged_table) :
                              q.BRAND = brand /\ q.AGE # NaN /\ q.AGE >= 21}}

\* What C8 says of the result apart from its order.
Q1Counts ==
    /\ Len(top_5_brands) <= 5
    /\ \A i \in DOMAIN top_5_brands :
          /\ top_5_brands[i].BRAND # NA
          /\ top_5_brands[i].receipt_count =
                Cardinality(ReceiptsOver21(top_5_brands[i].BRAND))
    /\ \A i, j \in DOMAIN top_5_brands :
          i # j => top_5_brands[i].BRAND # top_5_brands[j].BRAND

\* C8 (as claimed): query 1 returns at most 5 brands, each counted over the
\* distinct receipts of joined rows with age >= 21 and a brand, in strictly
\* descending order of the count.
C8_StrictlyDescending ==
    Q1Done =>
        /\ Q1Counts
        /\ \A i \in 1..(Len(top_5_brands) - 1) :
              top_5_brands[i].receipt_count > top_5_brands[i + 1].receipt_count

\* C8 (amended): query 1 returns at most 5 brands, each counted over the
\* distinct receipts of joined rows with age >= 21 and a brand, in
\* descending order of the count, where equal counts may follow each other.
C8_Descending ==
    Q1Done =>
        /\ Q1Counts
        /\ \A i \in 1..(Len(top_5_brands) - 1) :
              top_5_brands[i].receipt_count >= top_5_brands[i + 1].receipt_count

\* C8 witness: six brands qualify, five are returned, the counts fall and
\* two of them are equal.
C8_Witness ==
    /\ Q1Done
    /\ Cardinality({r.BRAND : r \in {q \in BagToSet(merged_table) : Q1Where(q)}}) = 6
    /\ Len(top_5_brands) = 5
    /\ top_5_brands[1].receipt_count > top_5_brands[5].receipt_count
    /\ top_5_brands[4].receipt_count = top_5_brands[5].receipt_count

\* The joined rows of the Dips & Salsa category with a brand and a sale.
DipsSalsaRows ==
    {r \in BagToSet(merged_table) :
        /\ "Dips & Salsa" \in {r.CATEGORY_2, r.CATEGORY_3}
        /\ r.BRAND # NA
        /\ r.FINAL_SALE # NaN}

\* The sum of the sale amounts of a brand's Dips & Salsa rows.
RECURSIVE SaleTotal(_)
SaleTotal(S) ==
    IF S = {} THEN 0
    ELSE LET r == CHOOSE q \in S : TRUE
         IN r.FINAL_SALE * CopiesIn(r, merged_table) + SaleTotal(S \ {r})

DipsSalsaTotal(brand) == SaleTotal({r \in DipsSalsaRows : r.BRAND = brand})

\* What C9 says of a returned row.
Q3RowRight ==
    \A i \in DOMAIN leading_brand :
        /\ leading_brand[i].BRAND \in {r.BRAND : r \in DipsSalsaRows}
        /\ leading_brand[i].total_sales = DipsSalsaTotal(leading_brand[i].BRAND)
        /\ \A r \in DipsSalsaRows :
              DipsSalsaTotal(r.BRAND) <= leading_brand[i].total_sales

\* C9 (as claimed): query 3 returns exactly one row for every joined table;
\* its total is the sum of the sale amounts of the brand's Dips & Salsa rows
\* and no other brand has a larger sum.
C9_ExactlyOneRow ==
    pc = "done" => Len(leading_brand) = 1 /\ Q3RowRight

\* C9 (amended): query 3 returns exactly one row when some joined row is in
\* the Dips & Salsa category with a brand and a sale amount, and no row
\* otherwise; the row's total is the sum of the sale amounts of the brand's
\* Dips & Salsa rows and no other brand has a larger sum.
C9_OneRowWhenMatched ==
    pc = "done" =>
        /\ Len(leading_brand) = (IF DipsSalsaRows = {} THEN 0 ELSE 1)
        /\ Q3RowRight

\* C9 witness: two brands have Dips & Salsa sales, the leader's total is
\* the sum over several rows and exceeds the other brand's.
C9_Witness ==
    /\ pc = "done"
    /\ Len(leading_brand) = 1
    /\ Cardinality({r.BRAND : r \in DipsSalsaRows}) = 2
    /\ \E r \in DipsSalsaRows :
          /\ r.BRAND = leading_brand[1].BRAND
          /\ r.FINAL_SALE < leading_brand[1].total_sales
    /\ \E r \in DipsSalsaRows :
          DipsSalsaTotal(r.BRAND) < leading_brand[1].total_sales

====
